---- MODULE Spec2Model ----
(***************************************************************************)
(* Order confirmation and stock workflow of the Autopurchases application. *)
(*                                                                         *)
(* The database tables Stock, Cart, Order and Contact are the shared       *)
(* state.  Every HTTP request runs in its own thread: a request is a       *)
(* process whose steps are its database statements, and statements of      *)
(* different requests interleave.  Django runs in autocommit mode, so a    *)
(* statement outside `transaction.atomic()` is visible as soon as it is    *)
(* executed, while the statements of an atomic block become visible        *)
(* together when the block is left.                                        *)
(***************************************************************************)
EXTENDS Integers, Sequences, FiniteSets, TLC

\* ---------------------------------------------------------------- bounds
MaxQuantity == 1
MaxCartLines == 2
MaxRequests == 2
MaxStockEdits == 1

\* ------------------------------------------------------ program constants
MAX_CONTACTS_FOR_USER == 1

Customers == {"a", "b"}
Stocks == {1, 2}
Prices == {1, 2}
Requests == 1 .. MaxRequests

NULL == "null"
Absent == "absent"

\* Request payloads of POST /cart/confirm-order/: one street address with
\* or without the optional apartment, and a payload without the required
\* city.
FullAddress == [city |-> "city", street |-> "street", house |-> "1", apartment |-> "7"]
AddressPayloads ==
    [city : {"city"}, street : {"street"}, house : {"1"}, apartment : {"7", Absent}]
    \cup {[city |-> Absent, street |-> "street", house |-> "1", apartment |-> Absent]}

\* Request payloads of PATCH /shop/<slug>/stock/<pk>/ (partial update).
StockPayloads ==
    [quantity : (-1) .. MaxQuantity] \cup [price : Prices] \cup [can_buy : BOOLEAN]

\* Quantities a client may send to the cart endpoints.
CartQuantities == {-1} \cup (1 .. MaxQuantity)

\* Request payloads of POST /cart/ and PATCH /cart/<id>/: product and
\* quantity, or quantity alone.
CartPayloads ==
    [product : {1}, quantity : (-1) .. MaxQuantity] \cup [quantity : (-1) .. MaxQuantity]

\* Shops, the shop of each stock line, the managers of each shop, the
\* administrators (is_staff) and the unauthenticated caller.
Shops == {1, 2}
ShopOf(s) == s
ShopManagers == [shop \in Shops |-> IF shop = 1 THEN {"m"} ELSE {"n"}]
Staff == {"s"}
Anonymous == "anon"

\* models.STATUS_CHOICES
STATUS_CHOICES == {"created", "confirmed", "assembled", "sent", "delivered", "cancelled"}

\* Request payloads of PATCH /shop/<slug>/orders/<pk>/.
OrderPayloads ==
    [status : {"confirmed", "cancelled", "invalid_status"}]
    \cup {[delivery_address |-> FullAddress],
          [status |-> "confirmed", delivery_address |-> FullAddress]}

\* The callers of the order and contact endpoints: the customer, the
\* managers of both shops, an administrator and an unauthenticated caller.
OrderCallers == {"a", "m", "n", "s", Anonymous}
ContactCallers == {"a", "b", "s"}

\* The delivery addresses of the order specification.
OrderAddresses ==
    [city : {"city"}, street : {"street"}, house : {"1"}, apartment : {"7", Absent}]

\* The stock edits of the conflict specification: those of the interleaved
\* specification and a restock.
ConflictPayloads ==
    {[quantity |-> 0], [quantity |-> MaxQuantity], [price |-> 2], [can_buy |-> FALSE]}

\* The inputs of the interleaved specification: all requests contend for
\* one stock line.  The serial specification draws from the full sets.
ContendedStocks == {1}
ContendedAddresses == {FullAddress}
ContendedPayloads == {[quantity |-> -1], [quantity |-> 0], [price |-> 2], [can_buy |-> FALSE]}

VARIABLES
    stock,        \* table Stock: id -> [quantity, price, can_buy]
    cart,         \* table Cart: set of rows
    orders,       \* table Order: set of rows
    contacts,     \* table Contact: set of rows
    nextId,       \* primary key sequences of Cart, Order and Contact
    req,          \* confirm-order requests: request -> local state
    mgr,          \* the stock edit request of a shop manager
    edits,        \* number of stock edits started so far
    initial,      \* history: Stock.quantity in the initial state
    edited,       \* history: stock lines a manager edit has written
    origin,       \* history: per created order, the cart line it came from
    resp          \* the last response of a single-statement endpoint

vars ==
    <<stock, cart, orders, contacts, nextId, req, mgr, edits, initial, edited, origin, resp>>

db == <<stock, cart, orders>>
history == <<initial, edited, origin>>

\* ------------------------------------------------------------- helpers

\* A check_quantity that never raises.
check_quantityNever(on_stock, in_order) == TRUE

\* serializers.check_quantity: TRUE when no ValidationError is raised.
check_quantity(on_stock, in_order) == ~(on_stock < in_order)

\* A check_availability that never raises.
check_availabilityNever(can_buy) == TRUE

\* serializers.check_availability: TRUE when no ValidationError is raised.
check_availability(can_buy) == can_buy

\* BaseOrder.save: total_price = product.price * quantity.
TotalPrice(price, quantity) == price * quantity

\* A get_queryset without the filter on the customer.
UserCartAnyone(user) == cart

\* UserFilterMixin.get_queryset: the cart rows of the requesting user.
UserCart(user) == {line \in cart : line.customer = user}

\* A view in which cart.exists() looks at the whole table.
CartExistsAnyUser(user) == cart # {}

\* CartViewSet.confirm_order: cart.exists() on the user's queryset.
CartExists(user) == UserCart(user) # {}

\* A queryset in descending id.
RECURSIVE OrderByIdDescending(_)
OrderByIdDescending(rows) ==
    IF rows = {} THEN <<>>
    ELSE LET first == CHOOSE x \in rows : \A y \in rows : x.id >= y.id
         IN <<first>> \o OrderByIdDescending(rows \ {first})

\* Cart.Meta.ordering = ["id"]: a set of rows as a list in ascending id.
RECURSIVE OrderById(_)
OrderById(rows) ==
    IF rows = {} THEN <<>>
    ELSE LET first == CHOOSE x \in rows : \A y \in rows : x.id <= y.id
         IN <<first>> \o OrderById(rows \ {first})

\* CartManager.with_dependencies: select_related("product__...") loads with
\* each cart row its own copy of the stock row, as it is at the query.
WithDependencies(line) ==
    [id |-> line.id, customer |-> line.customer, quantity |-> line.quantity,
     total_price |-> line.total_price,
     product |-> [id |-> line.product,
                  quantity |-> stock[line.product].quantity,
                  price |-> stock[line.product].price,
                  can_buy |-> stock[line.product].can_buy]]

\* A loop without refresh_from_db: the stock object as loaded with the cart.
RefreshFromDbCached(obj) == obj

\* Model.refresh_from_db(fields=["quantity", "can_buy"]) of a Stock object:
\* only the two named fields are re-read, price keeps its loaded value.
RefreshFromDb(obj) ==
    [obj EXCEPT !.quantity = stock[obj.id].quantity, !.can_buy = stock[obj.id].can_buy]

\* user.contacts.count()
ContactsCount(user) == Cardinality({k \in contacts : k.user = user})

\* ContactSerializer.validate: TRUE when no ValidationError is raised.
ContactValidate(user) == ~(ContactsCount(user) >= MAX_CONTACTS_FOR_USER)

\* ContactSerializer.to_internal_value: city, street and house are required
\* fields of the model; TRUE when no ValidationError is raised.
ContactFieldsValid(data) ==
    data.city # Absent /\ data.street # Absent /\ data.house # Absent

\* The lookup of Contact.objects.get_or_create(**data): only the keys
\* present in the validated data take part in the filter.
ContactLookup(data) ==
    {k \in contacts :
        /\ k.city = data.city /\ k.street = data.street /\ k.house = data.house
        /\ (data.apartment # Absent => k.apartment = data.apartment)}

\* The row get_or_create inserts when the lookup finds nothing.
ContactCreate(data) ==
    [id |-> nextId.contact, user |-> NULL, city |-> data.city, street |-> data.street,
     house |-> data.house,
     apartment |-> IF data.apartment = Absent THEN NULL ELSE data.apartment]

\* ContactSerializer.to_representation, with "id" popped by
\* OrderSerializer.to_representation.
ContactRepresentation(k) ==
    [city |-> k.city, street |-> k.street, house |-> k.house, apartment |-> k.apartment]

\* OrderSerializer.to_representation of an Order object held in memory.
OrderRepresentation(order, address) ==
    [id |-> order.id, customer |-> order.customer, product |-> order.product,
     quantity |-> order.quantity, total_price |-> order.total_price,
     delivery_address |-> ContactRepresentation(address), status |-> order.status]

\* --------------------------------------------------------- initial state

\* The values of a request's local variables that are not bound yet.
NoStock == [id |-> 0, quantity |-> 0, price |-> 0, can_buy |-> FALSE]
NoContact ==
    [id |-> 0, user |-> NULL, city |-> NULL, street |-> NULL, house |-> NULL,
     apartment |-> NULL]
NoAddress == [city |-> Absent, street |-> Absent, house |-> Absent, apartment |-> Absent]
NoPayload == [none |-> TRUE]

\* No single-statement endpoint has answered yet.
NoResponse == [op |-> "none", user |-> NULL, id |-> 0, data |-> NoPayload, status |-> 0]

IdleRequest ==
    [pc |-> "idle", customer |-> NULL, data |-> NoAddress, delivery_address |-> NoContact,
     cart |-> <<>>, n |-> 0, i |-> 0, stock |-> NoStock, dirty |-> FALSE,
     written |-> {}, skipped |-> {}, created |-> <<>>, mail |-> <<>>, status |-> 0]

IdleManager == [pc |-> "idle", instance |-> NoStock, data |-> NoPayload, status |-> 0]

\* A contact a user has saved in the profile.
SavedContact ==
    [id |-> 1, user |-> "b", city |-> "city", street |-> "street", house |-> "1",
     apartment |-> NULL]

Init ==
    /\ stock = [s \in Stocks |-> [quantity |-> MaxQuantity, price |-> 1, can_buy |-> TRUE]]
    /\ cart = {}
    /\ orders = {}
    /\ contacts \in {{}, {SavedContact}}
    /\ nextId = [cart |-> 1, order |-> 1, contact |-> 2]
    /\ req = [r \in Requests |-> IdleRequest]
    /\ mgr = IdleManager
    /\ edits = 0
    /\ initial = [s \in Stocks |-> stock[s].quantity]
    /\ edited = {}
    /\ origin = {}
    /\ resp = NoResponse

\* ------------------------------------------------------- cart endpoints

\* IntegerField(min_value=0) built for the PositiveIntegerField
\* BaseOrder.quantity: TRUE when the value is accepted.
QuantityFieldValid(quantity) == quantity >= 0

\* A validate without check_availability.
CartValidateQuantityOnly(product, quantity) ==
    check_quantity(stock[product].quantity, quantity)

\* CartSerializer.validate
CartValidate(product, quantity) ==
    /\ check_availability(stock[product].can_buy)
    /\ check_quantity(stock[product].quantity, quantity)

\* A create that takes the quantity off the stock line.
CartCreateReserving(user, product, quantity) ==
    /\ nextId.cart <= MaxCartLines
    /\ cart' = cart \cup {[id |-> nextId.cart, customer |-> user, product |-> product,
                           quantity |-> quantity,
                           total_price |-> TotalPrice(stock[product].price, quantity)]}
    /\ nextId' = [nextId EXCEPT !.cart = @ + 1]
    /\ stock' = [stock EXCEPT ![product].quantity = @ - quantity]
    /\ UNCHANGED <<orders, contacts, req, mgr, edits, history>>

\* POST /cart/: CartSerializer.is_valid, then create and BaseOrder.save.
CartCreate(user, product, quantity) ==
    /\ nextId.cart <= MaxCartLines
    /\ QuantityFieldValid(quantity)
    /\ CartValidate(product, quantity)
    /\ cart' = cart \cup {[id |-> nextId.cart, customer |-> user, product |-> product,
                           quantity |-> quantity,
                           total_price |-> TotalPrice(stock[product].price, quantity)]}
    /\ nextId' = [nextId EXCEPT !.cart = @ + 1]
    /\ UNCHANGED <<stock, orders, contacts, req, mgr, edits, history>>

\* PATCH /cart/<id>/ with product and quantity in the payload: the row is
\* looked up among the user's rows, validated and saved.
CartUpdate(user, id, product, quantity) ==
    /\ \E line \in UserCart(user) :
        /\ line.id = id
        /\ QuantityFieldValid(quantity)
        /\ CartValidate(product, quantity)
        /\ cart' = (cart \ {line}) \cup
                     {[line EXCEPT !.product = product, !.quantity = quantity,
                                   !.total_price = TotalPrice(stock[product].price, quantity)]}
    /\ cart' # cart
    /\ UNCHANGED <<stock, orders, contacts, nextId, req, mgr, edits, history>>

\* DELETE /cart/<id>/
CartDestroy(user, id) ==
    /\ \E line \in UserCart(user) :
        /\ line.id = id
        /\ cart' = cart \ {line}
    /\ UNCHANGED <<stock, orders, contacts, nextId, req, mgr, edits, history>>

\* The response of a single-statement endpoint.
Response(op, user, id, data, status) ==
    [op |-> op, user |-> user, id |-> id, data |-> data, status |-> status]

\* The fields of CartSerializer: product (a primary key of Stock) and
\* quantity, both required unless the update is partial; TRUE when
\* to_internal_value raises no ValidationError.
CartFieldsValid(data, partial) ==
    /\ partial \/ {"product", "quantity"} \subseteq DOMAIN data
    /\ "product" \in DOMAIN data => data.product \in Stocks
    /\ "quantity" \in DOMAIN data => QuantityFieldValid(data.quantity)

\* CartSerializer.validate reads attrs["product"] and attrs["quantity"]:
\* TRUE when a key is missing from the validated data (KeyError).
CartValidateKeyError(data) == ~({"product", "quantity"} \subseteq DOMAIN data)

\* POST /cart/ with its response: 400 on a ValidationError, else 201.
CartCreateStatus(data) ==
    IF ~CartFieldsValid(data, FALSE) THEN 400
    ELSE IF ~CartValidate(data.product, data.quantity) THEN 400
    ELSE 201

CartCreateRequest(user, data) ==
    LET status == CartCreateStatus(data)
    IN /\ resp' = Response("cart_create", user, IF status = 201 THEN nextId.cart ELSE 0,
                            data, status)
       /\ IF status = 201
          THEN CartCreate(user, data.product, data.quantity)
          ELSE UNCHANGED <<stock, cart, orders, contacts, nextId, req, mgr, edits, history>>

\* get_object of CartViewSet: the row with this id among the user's rows.
CartGetObject(user, id) == {line \in UserCart(user) : line.id = id}

\* GET /cart/<id>/
CartRetrieveRequest(user, id) ==
    /\ resp' = Response("cart_retrieve", user, id, NoPayload,
                         IF CartGetObject(user, id) = {} THEN 404 ELSE 200)
    /\ UNCHANGED <<stock, cart, orders, contacts, nextId, req, mgr, edits, history>>

\* PATCH /cart/<id>/ with its response: 404 from get_object, 400 on a
\* ValidationError, 500 on the unhandled KeyError, else 200.
CartUpdateStatus(user, id, data) ==
    IF CartGetObject(user, id) = {} THEN 404
    ELSE IF ~CartFieldsValid(data, TRUE) THEN 400
    ELSE IF CartValidateKeyError(data) THEN 500
    ELSE IF ~CartValidate(data.product, data.quantity) THEN 400
    ELSE 200

\* ModelSerializer.update and BaseOrder.save of a cart row.
CartUpdated(line, data) ==
    [line EXCEPT !.product = data.product, !.quantity = data.quantity,
                 !.total_price = TotalPrice(stock[data.product].price, data.quantity)]

CartUpdateRequest(user, id, data) ==
    LET status == CartUpdateStatus(user, id, data)
    IN /\ resp' = Response("cart_update", user, id, data, status)
       /\ cart' = IF status = 200
                  THEN {IF line.id = id THEN CartUpdated(line, data) ELSE line : line \in cart}
                  ELSE cart
       /\ UNCHANGED <<stock, orders, contacts, nextId, req, mgr, edits, history>>

\* DELETE /cart/<id>/ with its response: 404 from get_object, else 204.
CartDestroyRequest(user, id) ==
    /\ resp' = Response("cart_destroy", user, id, NoPayload,
                         IF CartGetObject(user, id) = {} THEN 404 ELSE 204)
    /\ IF CartGetObject(user, id) = {}
       THEN UNCHANGED <<stock, cart, orders, contacts, nextId, req, mgr, edits, history>>
       ELSE CartDestroy(user, id)

\* ---------------------------------------------------- stock edit endpoint

\* The stock row a confirm-order transaction has updated and not yet
\* committed is locked by the database against other writers.
RowLocked(s, self) ==
    \E r \in Requests : r # self /\ req[r].pc = "commit" /\ req[r].stock.id = s

\* History: a committed write to stock row s marks the read of every other
\* request that has re-fetched the row and not yet committed as outdated,
\* and is noted by every other request that is in its loop.
Dirty(s, self) ==
    [r \in Requests |->
        IF r # self /\ req[r].pc \in {"save", "commit"} /\ req[r].stock.id = s
        THEN [req[r] EXCEPT !.dirty = TRUE, !.written = @ \cup {s}]
        ELSE IF r # self /\ req[r].pc = "refresh"
        THEN [req[r] EXCEPT !.written = @ \cup {s}]
        ELSE req[r]]

\* StockSerializer.is_valid: quantity and price are built from positive
\* integer model fields (min_value=0); TRUE when the payload is accepted.
StockFieldsValid(data) ==
    /\ ("quantity" \in DOMAIN data => data.quantity >= 0)
    /\ ("price" \in DOMAIN data => data.price >= 0)

\* ModelSerializer.update: setattr for every key of the validated data.
SetAttrs(instance, data) ==
    [f \in DOMAIN instance |-> IF f \in DOMAIN data THEN data[f] ELSE instance[f]]

\* PATCH /shop/<slug>/stock/<pk>/, first statement: the view selects the
\* stock row and the serializer validates the payload.
UpdateProductInStock(s, data) ==
    /\ mgr.pc = "idle"
    /\ edits < MaxStockEdits
    /\ StockFieldsValid(data)
    /\ mgr' = [pc |-> "save",
               instance |-> [id |-> s, quantity |-> stock[s].quantity,
                             price |-> stock[s].price, can_buy |-> stock[s].can_buy],
               data |-> data, status |-> 0]
    /\ edits' = edits + 1
    /\ UNCHANGED <<stock, cart, orders, contacts, nextId, req, history, resp>>

\* Second statement: stock_ser.save() -> instance.save() without
\* update_fields writes every column of the loaded object.
StockSave ==
    /\ mgr.pc = "save"
    /\ ~RowLocked(mgr.instance.id, 0)
    /\ LET saved == SetAttrs(mgr.instance, mgr.data)
       IN /\ stock' = [stock EXCEPT ![saved.id] =
                          [quantity |-> saved.quantity, price |-> saved.price,
                           can_buy |-> saved.can_buy]]
          /\ edited' = edited \cup {saved.id}
          /\ req' = Dirty(saved.id, 0)
    /\ mgr' = [IdleManager EXCEPT !.status = 200]
    /\ UNCHANGED <<cart, orders, contacts, nextId, edits, initial, origin, resp>>

\* ------------------------------------------------------------- signals

\* send_email.delay_on_commit(subject, body, to): the task as it is
\* enqueued, with the Order its body describes.
SendEmail(subject, order, to) == [subject |-> subject, order |-> order, to |-> to]

\* A receiver that notifies the managers before the customer.
new_order_createdManagersFirst(instance, created) ==
    IF created
    THEN <<SendEmail("New order created!", instance.id, ShopManagers[ShopOf(instance.product)]),
           SendEmail("New order created!", instance.id, {instance.customer})>>
    ELSE <<>>

\* signals.new_order_created: the tasks the receiver enqueues, in order.
new_order_created(instance, created) ==
    IF created
    THEN <<SendEmail("New order created!", instance.id, {instance.customer}),
           SendEmail("New order created!", instance.id, ShopManagers[ShopOf(instance.product)])>>
    ELSE <<>>

\* A receiver that also notifies the managers of the shop.
order_updatedWithManagers(instance, update_fields, created) ==
    IF ~created /\ "status" \in update_fields
    THEN <<SendEmail("Order status changed.", instance.id,
                     {instance.customer} \cup ShopManagers[ShopOf(instance.product)])>>
    ELSE <<>>

\* signals.order_updated: the tasks the receiver enqueues.
order_updated(instance, update_fields, created) ==
    IF ~created /\ "status" \in update_fields
    THEN <<SendEmail("Order status changed.", instance.id, {instance.customer})>>
    ELSE <<>>

\* post_save of Order: both receivers run, in the order they are connected.
PostSave(instance, update_fields, created) ==
    new_order_created(instance, created) \o order_updated(instance, update_fields, created)

\* ------------------------------------------------- confirm-order endpoint

\* A view without the `if not order_ser.data` branch.
ResultStatusCreated(created) == 201

\* CartViewSet.confirm_order, after save(): `if not order_ser.data` raises
\* Conflict, otherwise the response is 201.
ResultStatus(created) == IF created = <<>> THEN 409 ELSE 201

\* The end of one iteration of `for product in cart`: the next row, or the
\* end of create() and the response of the view.
NextLine(rq) ==
    IF rq.i < Len(rq.cart)
    THEN [rq EXCEPT !.pc = "refresh", !.i = @ + 1]
    ELSE [rq EXCEPT !.pc = "done", !.status = ResultStatus(rq.created),
                    !.cart = <<>>, !.i = 0, !.stock = NoStock, !.dirty = FALSE,
                    !.written = {}]

\* POST /cart/confirm-order/.  The view: cart.exists(), then
\* order_ser.is_valid(), which runs ContactSerializer.validate on the
\* delivery address, then order_ser.save().  OrderListSerializer.create up
\* to its first iteration: get_or_create of the delivery address, then the
\* cart queryset is evaluated.
ConfirmOrder(r, user, data) ==
    /\ req[r].pc = "idle"
    /\ \A q \in Requests : q < r => req[q].pc # "idle"
    /\ LET start == [req[r] EXCEPT !.customer = user, !.data = data]
           found == ContactLookup(data)
           lines == OrderById(UserCart(user))
           loaded == [n \in 1 .. Len(lines) |-> WithDependencies(lines[n])]
       IN IF ~CartExists(user)
          THEN \* NotFound
               /\ req' = [req EXCEPT ![r] = [start EXCEPT !.pc = "done", !.status = 404]]
               /\ UNCHANGED <<contacts, nextId>>
          ELSE IF ~(ContactFieldsValid(data) /\ ContactValidate(user))
          THEN \* ValidationError
               /\ req' = [req EXCEPT ![r] = [start EXCEPT !.pc = "done", !.status = 400]]
               /\ UNCHANGED <<contacts, nextId>>
          ELSE IF Cardinality(found) > 1
          THEN \* MultipleObjectsReturned is not handled: response 500
               /\ req' = [req EXCEPT ![r] = [start EXCEPT !.pc = "done", !.status = 500]]
               /\ UNCHANGED <<contacts, nextId>>
          ELSE LET address == IF found = {} THEN ContactCreate(data)
                              ELSE CHOOSE k \in found : TRUE
               IN /\ contacts' = contacts \cup {address}
                  /\ nextId' = IF found = {} THEN [nextId EXCEPT !.contact = @ + 1]
                               ELSE nextId
                  /\ req' = [req EXCEPT ![r] =
                       NextLine([start EXCEPT !.delivery_address = address, !.cart = loaded,
                                             !.n = Len(loaded)])]
    /\ UNCHANGED <<stock, cart, orders, mgr, edits, history, resp>>

\* stock.refresh_from_db(...) and the two checks: `continue` on a
\* ValidationError, otherwise on to the atomic block.
Revalidate(r) ==
    /\ req[r].pc = "refresh"
    /\ LET product == req[r].cart[req[r].i]
           fresh == RefreshFromDb(product.product)
       IN req' = [req EXCEPT ![r] =
            IF check_availability(fresh.can_buy) /\ check_quantity(fresh.quantity, product.quantity)
            THEN [@ EXCEPT !.pc = "save", !.stock = fresh, !.dirty = FALSE]
            ELSE NextLine([@ EXCEPT !.skipped = @ \cup {product.id}])]
    /\ UNCHANGED <<stock, cart, orders, contacts, nextId, mgr, edits, history, resp>>

\* Inside transaction.atomic(): stock.quantity -= product.quantity and
\* stock.save(update_fields=["quantity"]).  The UPDATE takes the row lock;
\* the new value is not visible to others before the commit.
SaveStock(r) ==
    /\ req[r].pc = "save"
    /\ ~RowLocked(req[r].stock.id, r)
    /\ req' = [req EXCEPT ![r] =
         [@ EXCEPT !.pc = "commit",
                   !.stock = [@ EXCEPT !.quantity = @ - req[r].cart[req[r].i].quantity]]]
    /\ UNCHANGED <<stock, cart, orders, contacts, nextId, mgr, edits, history, resp>>

\* The Order object of Order.objects.create(...), total_price set by
\* BaseOrder.save from the price of the loaded stock object.
NewOrder(rq) ==
    LET product == rq.cart[rq.i]
    IN [id |-> nextId.order, customer |-> product.customer, product |-> rq.stock.id,
        quantity |-> product.quantity,
        total_price |-> TotalPrice(rq.stock.price, product.quantity),
        delivery_address |-> rq.delivery_address.id, status |-> "created"]

\* The Contact row is in the table: the foreign key of an Order that
\* references it can be written.
ContactStored(id) == \E k \in contacts : k.id = id

\* An atomic block without product.delete().
DeleteLineKept(rows, id) == rows

\* product.delete(): DELETE ... WHERE id = <pk>, a no-op when the row is gone.
DeleteLine(rows, id) == {line \in rows : line.id # id}

\* The rest of the atomic block and its commit: the Order is inserted, the
\* cart row deleted, and the three writes become visible together.
CommitLine(r) ==
    /\ req[r].pc = "commit"
    /\ ContactStored(req[r].delivery_address.id)
    /\ LET product == req[r].cart[req[r].i]
           s == req[r].stock.id
           order == NewOrder(req[r])
       IN /\ stock' = [stock EXCEPT ![s].quantity = req[r].stock.quantity]
          /\ orders' = orders \cup {order}
          /\ cart' = DeleteLine(cart, product.id)
          /\ nextId' = [nextId EXCEPT !.order = @ + 1]
          /\ origin' = origin \cup {[order |-> order.id, line |-> product.id]}
          /\ req' = [Dirty(s, r) EXCEPT ![r] =
                       NextLine([req[r] EXCEPT !.created = Append(@, order),
                                               !.mail = @ \o PostSave(order, {}, TRUE)])]
    /\ UNCHANGED <<contacts, mgr, edits, initial, edited, resp>>

\* The atomic block raises: the INSERT of the Order violates the foreign key
\* to a Contact that has been deleted since get_or_create.  The block is
\* rolled back, the tasks registered on commit are dropped, and the
\* IntegrityError leaves create() and the view: response 500.
RollbackLine(r) ==
    /\ req[r].pc = "commit"
    /\ ~ContactStored(req[r].delivery_address.id)
    /\ req' = [req EXCEPT ![r] =
         [@ EXCEPT !.pc = "done", !.status = 500, !.cart = <<>>, !.i = 0,
                   !.stock = NoStock, !.dirty = FALSE, !.written = {}]]
    /\ UNCHANGED <<stock, cart, orders, contacts, nextId, mgr, edits, history, resp>>

\* The body of the 201 response: order_ser.data.
ResponseData(rq) ==
    [n \in 1 .. Len(rq.created) |-> OrderRepresentation(rq.created[n], rq.delivery_address)]

\* ------------------------------------------------------- specification

\* Requests are handled concurrently: the statements of all requests
\* interleave.
Next ==
    \/ \E user \in Customers, s \in ContendedStocks, quantity \in CartQuantities :
          CartCreate(user, s, quantity) /\ UNCHANGED resp
    \/ \E user \in Customers, id \in 1 .. MaxCartLines, s \in ContendedStocks,
          quantity \in CartQuantities :
          CartUpdate(user, id, s, quantity) /\ UNCHANGED resp
    \/ \E user \in Customers, id \in 1 .. MaxCartLines :
          CartDestroy(user, id) /\ UNCHANGED resp
    \/ \E s \in ContendedStocks, data \in ContendedPayloads : UpdateProductInStock(s, data)
    \/ StockSave
    \/ \E r \in Requests, user \in Customers, data \in ContendedAddresses :
          ConfirmOrder(r, user, data)
    \/ \E r \in Requests : Revalidate(r)
    \/ \E r \in Requests : SaveStock(r)
    \/ \E r \in Requests : CommitLine(r)

Spec == Init /\ [][Next]_vars

\* Requests are handled one at a time: a request starts when no other is
\* in flight.
Quiet == mgr.pc = "idle" /\ \A r \in Requests : req[r].pc \in {"idle", "done"}

NextSerial ==
    \/ \E user \in Customers, s \in Stocks, quantity \in CartQuantities :
          Quiet /\ CartCreate(user, s, quantity) /\ UNCHANGED resp
    \/ \E user \in Customers, id \in 1 .. MaxCartLines, s \in Stocks,
          quantity \in CartQuantities :
          Quiet /\ CartUpdate(user, id, s, quantity) /\ UNCHANGED resp
    \/ \E user \in Customers, id \in 1 .. MaxCartLines :
          Quiet /\ CartDestroy(user, id) /\ UNCHANGED resp
    \/ \E s \in Stocks, data \in StockPayloads : Quiet /\ UpdateProductInStock(s, data)
    \/ StockSave
    \/ \E r \in Requests, user \in Customers, data \in AddressPayloads :
          Quiet /\ ConfirmOrder(r, user, data)
    \/ \E r \in Requests : Revalidate(r)
    \/ \E r \in Requests : SaveStock(r)
    \/ \E r \in Requests : CommitLine(r)

SerialSpec == Init /\ [][NextSerial]_vars

\* ------------------------------------------------ order status endpoint

\* A permission that lets every caller through.
IsManagerOrAdminAnyone(user, shop) == TRUE

\* permissions.IsManagerOrAdmin.has_object_permission on the shop.
IsManagerOrAdmin(user, shop) == user \in Staff \/ user \in ShopManagers[shop]

\* Order.objects.filter(product__shop=shop, pk=order_pk)
ShopOrder(shop, order_pk) ==
    {o \in orders : o.id = order_pk /\ ShopOf(o.product) = shop}

\* A status field without choices.
OrderFieldsValidAnyStatus(data) == "delivery_address" \notin DOMAIN data

\* A validate_delivery_address that lets the address through.
OrderFieldsValidAnyAddress(data) ==
    "status" \in DOMAIN data => data.status \in STATUS_CHOICES

\* OrderSerializer.is_valid of a PATCH on the shop path: status is a choice
\* of STATUS_CHOICES, validate_status passes, validate_delivery_address
\* raises; TRUE when no ValidationError is raised.
OrderFieldsValid(data) ==
    /\ "status" \in DOMAIN data => data.status \in STATUS_CHOICES
    /\ "delivery_address" \notin DOMAIN data

\* An update that saves the whole row: BaseOrder.save recomputes total_price
\* from the current price and writes it.
OrderUpdatedFullSave(order, data) ==
    [order EXCEPT !.status = IF "status" \in DOMAIN data THEN data.status ELSE @,
                  !.delivery_address = IF "delivery_address" \in DOMAIN data THEN 0 ELSE @,
                  !.total_price = TotalPrice(stock[order.product].price, order.quantity)]

\* OrderSerializer.update: setattr of the validated data and
\* save(update_fields=validated_data.keys()); the address of a validated
\* payload would be written as a new Contact reference.
OrderUpdated(order, data) ==
    [order EXCEPT !.status = IF "status" \in DOMAIN data THEN data.status ELSE @,
                  !.delivery_address = IF "delivery_address" \in DOMAIN data THEN 0 ELSE @]

\* The Order object after OrderSerializer.update: BaseOrder.save has set
\* total_price on the object from the current price of its stock line.
OrderInstance(order, data) ==
    [OrderUpdated(order, data) EXCEPT
        !.total_price = TotalPrice(stock[order.product].price, order.quantity)]

\* order_ser.data of the 200 response: the fields of the Order object.
OrderBody(instance) ==
    [quantity |-> instance.quantity, total_price |-> instance.total_price,
     status |-> instance.status]

\* The answer of an endpoint of one shop: the shop of the URL with the
\* caller, the object, the payload, the response status and body, and the
\* tasks enqueued while the request was handled.
ShopResponse(op, user, shop, id, data, status, body, mail) ==
    [op |-> op, user |-> user, shop |-> shop, id |-> id, data |-> data, status |-> status,
     body |-> body, mail |-> mail]

\* The response status of PATCH /shop/<slug>/orders/<pk>/.
UpdateShopOrderStatusCode(user, shop, order_pk, data) ==
    IF ~IsManagerOrAdmin(user, shop) THEN (IF user = Anonymous THEN 401 ELSE 403)
    ELSE IF ShopOrder(shop, order_pk) = {} THEN 400
    ELSE IF ~OrderFieldsValid(data) THEN 400
    ELSE 200

\* ShopViewSet.update_shop_order_status
UpdateShopOrderStatus(user, shop, order_pk, data) ==
    LET status == UpdateShopOrderStatusCode(user, shop, order_pk, data)
        order == CHOOSE o \in ShopOrder(shop, order_pk) : TRUE
    IN /\ resp' = IF status = 200
                  THEN ShopResponse("order_update", user, shop, order_pk, data, status,
                                    OrderBody(OrderInstance(order, data)),
                                    PostSave(OrderInstance(order, data), DOMAIN data, FALSE))
                  ELSE ShopResponse("order_update", user, shop, order_pk, data, status,
                                    NoPayload, <<>>)
       /\ orders' = IF status = 200
                    THEN {IF o \in ShopOrder(shop, order_pk) THEN OrderUpdated(o, data) ELSE o :
                            o \in orders}
                    ELSE orders
       /\ UNCHANGED <<stock, cart, contacts, nextId, req, mgr, edits, history>>

\* ------------------------------------------------------ contact endpoints

\* The permission of UserViewSet on a user object for an unsafe method:
\* the user itself or an administrator.
IsMeOrAdminOrReadOnly(user, pk) == user \in Staff \/ user = pk

\* on_delete=CASCADE of Order.delivery_address: the Orders deleted with the
\* Contact.
DeleteCascade(rows, contact_pk) == {o \in rows : o.delivery_address # contact_pk}

\* UserViewSet.delete_contact
DeleteContact(user, pk, contact_pk) ==
    LET contact == {k \in contacts : k.user = pk /\ k.id = contact_pk}
        status == IF ~IsMeOrAdminOrReadOnly(user, pk) THEN 403
                  ELSE IF contact = {} THEN 400
                  ELSE 204
    IN /\ resp' = Response("contact_delete", user, contact_pk, NoPayload, status)
       /\ contacts' = IF status = 204 THEN contacts \ contact ELSE contacts
       /\ orders' = IF status = 204 THEN DeleteCascade(orders, contact_pk) ELSE orders
       /\ UNCHANGED <<stock, cart, nextId, req, mgr, edits, history>>

\* UserViewSet.create_contact: the serializer is built with
\* context={"user": user}, and ContactSerializer.validate reads
\* context["request"]: a payload with valid fields ends in KeyError (500).
CreateContact(user, pk, data) ==
    LET status == IF ~IsMeOrAdminOrReadOnly(user, pk) THEN 403
                  ELSE IF ~ContactFieldsValid(data) THEN 400
                  ELSE 500
    IN /\ resp' = Response("contact_create", user, 0, data, status)
       /\ UNCHANGED <<stock, cart, orders, contacts, nextId, req, mgr, edits, history>>

\* The order and contact endpoints with their responses, requests handled
\* one at a time, together with the cart, stock edits and order
\* confirmation of one customer.
NextOrder ==
    \/ \E s \in ContendedStocks, quantity \in CartQuantities :
          Quiet /\ CartCreate("a", s, quantity) /\ UNCHANGED resp
    \/ \E id \in 1 .. MaxCartLines, s \in ContendedStocks, quantity \in CartQuantities :
          Quiet /\ CartUpdate("a", id, s, quantity) /\ UNCHANGED resp
    \/ \E id \in 1 .. MaxCartLines : Quiet /\ CartDestroy("a", id) /\ UNCHANGED resp
    \/ \E s \in ContendedStocks, data \in ContendedPayloads :
          Quiet /\ UpdateProductInStock(s, data)
    \/ StockSave
    \/ \E data \in OrderAddresses : Quiet /\ ConfirmOrder(1, "a", data)
    \/ Revalidate(1)
    \/ SaveStock(1)
    \/ CommitLine(1)
    \/ \E user \in OrderCallers, shop \in Shops, order_pk \in 1 .. MaxCartLines,
          data \in OrderPayloads :
          Quiet /\ UpdateShopOrderStatus(user, shop, order_pk, data)
    \/ \E user \in ContactCallers, contact_pk \in 1 .. 2 :
          Quiet /\ DeleteContact(user, "b", contact_pk)
    \/ \E user \in ContactCallers, data \in (AddressPayloads \ OrderAddresses) \cup {FullAddress} :
          Quiet /\ CreateContact(user, "b", data)

OrderSpec == Init /\ [][NextOrder]_vars

\* Confirm-order requests whose statements interleave with each other, with
\* stock edits and with the deletion of a saved contact by its owner or an
\* administrator.
NextConflict ==
    \/ \E user \in Customers, s \in ContendedStocks, quantity \in CartQuantities :
          Quiet /\ CartCreate(user, s, quantity) /\ UNCHANGED resp
    \/ \E s \in ContendedStocks, data \in ConflictPayloads : UpdateProductInStock(s, data)
    \/ StockSave
    \/ \E r \in Requests, user \in Customers, data \in OrderAddresses :
          ConfirmOrder(r, user, data)
    \/ \E r \in Requests : Revalidate(r)
    \/ \E r \in Requests : SaveStock(r)
    \/ \E r \in Requests : CommitLine(r)
    \/ \E r \in Requests : RollbackLine(r)
    \/ \E user \in {"b", "s"}, contact_pk \in 1 .. 2 : DeleteContact(user, "b", contact_pk)

ConflictSpec == Init /\ [][NextConflict]_vars

\* The cart endpoints with their responses, requests handled one at a
\* time, together with stock edits and order confirmation.
NextCart ==
    \/ \E user \in Customers, data \in CartPayloads : Quiet /\ CartCreateRequest(user, data)
    \/ \E user \in Customers, id \in 1 .. MaxCartLines :
          Quiet /\ CartRetrieveRequest(user, id)
    \/ \E user \in Customers, id \in 1 .. MaxCartLines, data \in CartPayloads :
          Quiet /\ CartUpdateRequest(user, id, data)
    \/ \E user \in Customers, id \in 1 .. MaxCartLines :
          Quiet /\ CartDestroyRequest(user, id)
    \/ \E s \in ContendedStocks, data \in ContendedPayloads :
          Quiet /\ UpdateProductInStock(s, data)
    \/ StockSave
    \/ \E user \in Customers, data \in ContendedAddresses :
          Quiet /\ ConfirmOrder(1, user, data)
    \/ Revalidate(1)
    \/ SaveStock(1)
    \/ CommitLine(1)

CartSpec == Init /\ [][NextCart]_vars

\* --------------------------------------------------------------- claims

RECURSIVE SumQuantity(_)
SumQuantity(rows) ==
    IF rows = {} THEN 0
    ELSE LET row == CHOOSE x \in rows : TRUE
         IN row.quantity + SumQuantity(rows \ {row})

OrdersOf(s) == {o \in orders : o.product = s}
CartIds == {line.id : line \in cart}
Started == {r \in Requests : req[r].pc # "idle"}

\* A step of confirm-order request r.
Acts(r) == req'[r].pc # req[r].pc \/ req'[r].i # req[r].i

\* All confirm-order requests come from different customers.
DifferentCustomers ==
    \A r1, r2 \in Started : r1 # r2 => req[r1].customer # req[r2].customer

\* C1: No overselling.  While the confirm-order requests come from
\* different customers and no manager edit has written the stock line, the
\* quantities of the Orders created against a stock line sum to at most the
\* quantity the stock line started with.
C1_NoOverselling ==
    \A s \in Stocks :
        (DifferentCustomers /\ s \notin edited) => SumQuantity(OrdersOf(s)) <= initial[s]

\* C2: Per-line atomicity.  A step of a confirm-order request either commits
\* one line -- the stock row takes the decremented quantity, exactly one
\* Order of that line is inserted and the cart row is gone, all in the same
\* step -- or changes none of Stock, Cart and Order; a skipped line undoes
\* nothing of the lines committed before it, and no Order exists whose cart
\* line is still in the cart.
C2_CommitStep(r) ==
    LET product == req[r].cart[req[r].i]
        s == req[r].stock.id
        new == orders' \ orders
    IN /\ orders \subseteq orders'
       /\ Cardinality(new) = 1
       /\ \A o \in new : /\ o.customer = product.customer
                         /\ o.product = s
                         /\ o.quantity = product.quantity
       /\ stock' = [stock EXCEPT ![s].quantity = req[r].stock.quantity]
       /\ cart' = {line \in cart : line.id # product.id}

C2_PerLineAtomicity ==
    /\ [](\A o \in origin : o.line \notin CartIds)
    /\ [][\A r \in Requests : Acts(r) =>
            IF req[r].pc = "commit" THEN C2_CommitStep(r) ELSE UNCHANGED db]_vars

\* C2 witness: a request has committed one line and skipped another.
C2_Witness ==
    \E r \in Requests : req[r].pc = "done" /\ req[r].created # <<>> /\ req[r].skipped # {}

\* The step in which request r leaves the loop of create() and the view
\* answers.
Completes(r) == req[r].pc \in {"refresh", "save", "commit"} /\ req'[r].pc = "done"

\* The cart row a loaded line was read from.
RowOf(product) ==
    [id |-> product.id, customer |-> product.customer, product |-> product.product.id,
     quantity |-> product.quantity, total_price |-> product.total_price]

\* The lines of the cart loaded by request r whose stock, as it was when the
\* request started, is not for sale or is less than the line's quantity.
Unavailable(r) ==
    {n \in 1 .. Len(req[r].cart) :
        \/ ~req[r].cart[n].product.can_buy
        \/ req[r].cart[n].product.quantity < req[r].cart[n].quantity}

\* The lines of the cart loaded by request r reference different stock lines.
DistinctStocks(r) ==
    \A n, m \in 1 .. Len(req[r].cart) :
        n # m => req[r].cart[n].product.id # req[r].cart[m].product.id

\* With N lines loaded of which K are unavailable, request r ends with N - K
\* Orders, the K rows still in the cart as they were and their stock as it
\* was.
PartialSuccess(r) ==
    LET K == Unavailable(r)
    IN /\ Len(req'[r].created) = Len(req[r].cart) - Cardinality(K)
       /\ {line \in cart' : line.customer = req[r].customer}
            = {RowOf(req[r].cart[n]) : n \in K}
       /\ \A n \in K : LET loaded == req[r].cart[n].product
                       IN stock'[loaded.id] = [quantity |-> loaded.quantity,
                                               price |-> loaded.price,
                                               can_buy |-> loaded.can_buy]

\* C3 as stated: partial success.  Requests handled one at a time: whenever a
\* confirm-order request with a valid payload has gone through a cart of N
\* lines of which K reference unavailable or insufficient stock, it has
\* created N - K Orders and left exactly the K rows, untouched, in the cart,
\* and the stock of the K lines is unchanged.
C3_PartialSuccess ==
    [][\A r \in Requests : Completes(r) => PartialSuccess(r)]_vars

\* C3 amended: partial success holds when the lines of the cart reference
\* pairwise different stock lines.
C3_PartialSuccessDistinct ==
    [][\A r \in Requests : (Completes(r) /\ DistinctStocks(r)) => PartialSuccess(r)]_vars

\* C3 witness: a request over two lines of different stock lines has ended
\* with one Order, and the skipped line is still in the cart.
C3_Witness ==
    \E r \in Requests :
        /\ req[r].status = 201 /\ req[r].n = 2 /\ Len(req[r].created) = 1
        /\ \E line \in cart : /\ line.id \in req[r].skipped
                              /\ line.customer = req[r].customer
                              /\ line.product # req[r].created[1].product

\* C4: all-fail.  Requests handled one at a time: when every line of a
\* non-empty cart has failed re-validation the request ends in 409 with no
\* Order, every row of the customer is still in the cart as it was loaded
\* and the stock lines are as they were loaded; no step of a request that
\* has created no Order changes Stock, Cart or Order.
C4_AllFail ==
    [][\A r \in Requests :
        /\ (Completes(r) /\ req[r].n >= 1 /\ Cardinality(req'[r].skipped) = req[r].n) =>
              /\ req'[r].status = 409
              /\ req'[r].created = <<>>
              /\ \A o \in origin' : o.line \notin req'[r].skipped
              /\ {line \in cart' : line.customer = req[r].customer}
                   = {RowOf(req[r].cart[n]) : n \in 1 .. Len(req[r].cart)}
              /\ \A n \in 1 .. Len(req[r].cart) :
                    LET loaded == req[r].cart[n].product
                    IN stock'[loaded.id] = [quantity |-> loaded.quantity,
                                            price |-> loaded.price,
                                            can_buy |-> loaded.can_buy]
        /\ (Acts(r) /\ req'[r].created = <<>>) => UNCHANGED db]_vars

\* C4 witness: a request over a cart of two lines has ended in 409 and both
\* rows are still in the cart.
C4_Witness ==
    \E r \in Requests :
        /\ req[r].status = 409 /\ req[r].n = 2 /\ Cardinality(req[r].skipped) = 2
        /\ req[r].skipped \subseteq CartIds

\* C5: empty cart.  Requests handled one at a time: a confirm-order request
\* of a customer without cart rows ends at once in 404, with no Order, and
\* Stock, Cart, Order and Contact are unchanged, whatever the delivery
\* address in the payload.
C5_EmptyCart ==
    [][\A r \in Requests :
        (req[r].pc = "idle" /\ req'[r].pc # "idle"
            /\ {line \in cart : line.customer = req'[r].customer} = {}) =>
              /\ req'[r].pc = "done"
              /\ req'[r].status = 404
              /\ req'[r].created = <<>>
              /\ UNCHANGED <<stock, cart, orders, contacts>>]_vars

\* C5 witness: a request with a payload lacking the city has ended in 404
\* while another customer has rows in the cart.
C5_Witness ==
    \E r \in Requests :
        /\ req[r].status = 404 /\ req[r].data.city = Absent
        /\ cart # {} /\ \A line \in cart : line.customer # req[r].customer

\* C6: one Order per cart line.  No two Orders come from the same cart row.
C6_OneOrderPerLine ==
    \A o1, o2 \in origin : o1.line = o2.line => o1.order = o2.order

C8_QuantityNonNegative == \A s \in Stocks : stock[s].quantity \in Nat

\* C8 witness: a stock line is at zero after two requests have both
\* decremented it and a manager edit has written it.
C8_Witness ==
    \E s \in Stocks :
        stock[s].quantity = 0 /\ Cardinality(OrdersOf(s)) >= 2 /\ s \in edited

\* The delivery address of a payload as a response shows it.
PayloadAddress(data) ==
    [city |-> data.city, street |-> data.street, house |-> data.house,
     apartment |-> IF data.apartment = Absent THEN NULL ELSE data.apartment]

\* C9: the 201 response.  Requests handled one at a time: the body of a 201
\* response lists Orders of the table, each once, all created by this call
\* for the caller with status "created", and each shows the delivery
\* address of the payload.
C9_Response ==
    \A r \in Requests : req[r].status = 201 =>
        LET data == ResponseData(req[r])
        IN /\ Len(data) >= 1
           /\ \A n, m \in 1 .. Len(data) : n # m => data[n].id # data[m].id
           /\ \A n \in 1 .. Len(data) :
                /\ \E o \in orders : /\ o.id = data[n].id
                                     /\ o.product = data[n].product
                                     /\ o.quantity = data[n].quantity
                /\ \E o \in origin : o.order = data[n].id
                /\ data[n].customer = req[r].customer
                /\ data[n].status = "created"
                /\ data[n].delivery_address = PayloadAddress(req[r].data)

\* C10: total price.  Every cart row and every Order is written with
\* total_price = quantity * the price stored for its stock line when the row
\* is written.
C10_TotalPrice ==
    [][/\ \A line \in cart' \ cart :
            line.total_price = line.quantity * stock[line.product].price
       /\ \A o \in orders' \ orders :
            o.total_price = o.quantity * stock[o.product].price]_vars

\* The step is the answer of the endpoint op.
Answers(op) == resp' # resp /\ resp'.op = op

\* The new cart row of a step, if it adds exactly one.
AddsOneLine(user, product, quantity) ==
    \E line \in cart' \ cart :
        /\ cart' = cart \cup {line}
        /\ line.customer = user /\ line.product = product /\ line.quantity = quantity

\* C15 as stated: add-to-cart of stock line S with quantity q is rejected
\* with 400 and adds no row if S.can_buy is false or q > S.quantity;
\* otherwise it adds exactly one row of the caller with S and q.
C15_AddToCart ==
    [][(Answers("cart_create") /\ DOMAIN resp'.data = {"product", "quantity"}) =>
        LET S == stock[resp'.data.product]
            q == resp'.data.quantity
        IN IF ~S.can_buy \/ q > S.quantity
           THEN resp'.status = 400 /\ cart' = cart
           ELSE resp'.status = 201 /\ AddsOneLine(resp'.user, resp'.data.product, q)]_vars

\* C15 amended: the same for a quantity q >= 1; a negative q is rejected
\* with 400 and adds no row whatever the stock.
C15_AddToCartPositive ==
    [][(Answers("cart_create") /\ DOMAIN resp'.data = {"product", "quantity"}) =>
        LET S == stock[resp'.data.product]
            q == resp'.data.quantity
        IN /\ (q < 0 \/ ~S.can_buy \/ q > S.quantity) =>
                resp'.status = 400 /\ cart' = cart
           /\ (q >= 1 /\ S.can_buy /\ q <= S.quantity) =>
                resp'.status = 201 /\ AddsOneLine(resp'.user, resp'.data.product, q)]_vars

\* C15 witness: an add-to-cart with a quantity the stock covers has been
\* rejected because the stock line is not for sale.
C15_Witness ==
    /\ resp.op = "cart_create" /\ resp.status = 400
    /\ DOMAIN resp.data = {"product", "quantity"}
    /\ resp.data.quantity >= 1
    /\ resp.data.quantity <= stock[resp.data.product].quantity
    /\ ~stock[resp.data.product].can_buy

\* C16: a PATCH of an owned cart row with a payload of only a quantity
\* q >= 1 answers 200 and stores q and total_price = q * price when the
\* row's stock line is for sale and covers q, and otherwise answers 400 and
\* leaves the cart unchanged.
C16_UpdateQuantity ==
    [][(Answers("cart_update") /\ DOMAIN resp'.data = {"quantity"}
            /\ resp'.data.quantity >= 1) =>
        \A line \in cart :
            (line.id = resp'.id /\ line.customer = resp'.user) =>
                LET S == stock[line.product]
                    q == resp'.data.quantity
                IN IF S.can_buy /\ q <= S.quantity
                   THEN /\ resp'.status = 200
                        /\ cart' = (cart \ {line}) \cup
                             {[line EXCEPT !.quantity = q, !.total_price = q * S.price]}
                   ELSE resp'.status = 400 /\ cart' = cart]_vars

\* C17: every cart row and every Order has a quantity of at least 1.
C17_PositiveQuantities ==
    /\ \A line \in cart : line.quantity >= 1
    /\ \A o \in orders : o.quantity >= 1

\* C18: the cart endpoints never write Stock, also when they reject the
\* request; a stock quantity goes down only in a step of a confirm-order
\* request or of a manager's stock edit.
C18_CartIsAdvisory ==
    [][/\ (\E op \in {"cart_create", "cart_retrieve", "cart_update", "cart_destroy"} :
              Answers(op)) => stock' = stock
       /\ \A s \in Stocks :
            stock'[s].quantity < stock[s].quantity =>
                \/ \E r \in Requests : req[r].pc = "commit" /\ Acts(r)
                \/ mgr.pc = "save" /\ mgr'.pc = "idle"]_vars

\* C18 witness: a cart row asks for more than its stock line now holds,
\* and the cart endpoint has just added a row.
C18_Witness ==
    /\ resp.op = "cart_create" /\ resp.status = 201
    /\ \E line \in cart : stock[line.product].quantity < line.quantity

\* C19: customer scoping.  Reading, updating or deleting a cart row of
\* another customer answers 404 and leaves the cart unchanged; a step of a
\* confirm-order request creates Orders of its customer only and leaves the
\* rows of other customers as they are.
C19_CustomerScoping ==
    [][/\ \A op \in {"cart_retrieve", "cart_update", "cart_destroy"} :
            (Answers(op) /\ \E line \in cart :
                              line.id = resp'.id /\ line.customer # resp'.user) =>
                resp'.status = 404 /\ cart' = cart
       /\ \A r \in Requests : Acts(r) =>
            /\ \A o \in orders' \ orders : o.customer = req'[r].customer
            /\ {line \in cart : line.customer # req'[r].customer}
                  = {line \in cart' : line.customer # req'[r].customer}
            /\ \A o \in origin' \ origin :
                  \E line \in cart : line.id = o.line /\ line.customer = req'[r].customer]_vars

\* C19 witness: a customer's PATCH of another customer's row has answered
\* 404, the row is in the cart, and an Order of the first customer exists.
C19_Witness ==
    /\ resp.op = "cart_update" /\ resp.status = 404
    /\ \E line \in cart : line.id = resp.id /\ line.customer # resp.user
    /\ \E o \in orders : o.customer = resp.user

\* The callers the order status endpoint must let through for order o: the
\* managers of the shop owning the order's stock line and the staff.
MayWriteStatus(o) == Staff \cup ShopManagers[ShopOf(o.product)]

\* C11: Order immutability.  In every step -- an order status update, a
\* manager stock edit, a cart operation, a step of confirm-order, a contact
\* request -- an Order that is stored before and after the step keeps its
\* quantity, total_price, customer, stock line and delivery address; only
\* its status may differ.
C11_OrderImmutability ==
    [][\A o \in orders : \A p \in orders' :
            p.id = o.id => [p EXCEPT !.status = o.status] = o]_vars

\* C11 witness: an Order whose status has been updated, stored with a
\* total_price that is no longer the current price times its quantity.
C11_Witness ==
    \E o \in orders :
        /\ o.status # "created"
        /\ o.quantity >= 1
        /\ o.product \in edited
        /\ o.total_price # TotalPrice(stock[o.product].price, o.quantity)

\* C12: A PATCH of an existing Order, sent by a manager of its shop or by an
\* administrator, whose payload includes delivery_address, with or without
\* a status, is answered 400 and changes no Order.
C12_AddressRejected ==
    [][(/\ Answers("order_update")
        /\ "delivery_address" \in DOMAIN resp'.data
        /\ resp'.user \in Staff \cup ShopManagers[resp'.shop]
        /\ \E o \in orders : o.id = resp'.id /\ ShopOf(o.product) = resp'.shop)
       => (resp'.status = 400 /\ orders' = orders)]_vars

\* C12 witness: the manager's PATCH with a status and a delivery_address on
\* an existing Order has been answered 400.
C12_Witness ==
    /\ resp.op = "order_update"
    /\ resp.user \in ShopManagers[resp.shop]
    /\ {"status", "delivery_address"} \subseteq DOMAIN resp.data
    /\ resp.status = 400
    /\ \E o \in orders : o.id = resp.id /\ ShopOf(o.product) = resp.shop /\ o.status = "created"

\* C13: Status write authorization.  A step that changes the status of an
\* Order is a status update of that Order requested by a manager of the
\* shop owning the Order's stock line or by an administrator; a request of
\* the customer, of a manager of another shop or of an unauthenticated
\* caller changes no status.
C13_StatusWriteAuthorization ==
    [][\A o \in orders : \A p \in orders' :
            (p.id = o.id /\ p.status # o.status)
            => /\ resp'.op = "order_update"
               /\ resp'.id = o.id
               /\ resp'.user \in MayWriteStatus(o)]_vars

\* C13 witness: the customer's own status update of an Order a manager has
\* confirmed was refused.
C13_Witness ==
    /\ resp.op = "order_update"
    /\ resp.user = "a"
    /\ resp.status = 403
    /\ "status" \in DOMAIN resp.data
    /\ \E o \in orders :
          /\ o.id = resp.id
          /\ ShopOf(o.product) = resp.shop
          /\ o.customer = "a"
          /\ o.status = "confirmed"
          /\ resp.data.status # o.status

\* C14: cancelled is terminal.  An Order whose status is cancelled keeps
\* that status in every later step, whatever status update a manager or
\* an administrator sends.
C14_CancelledTerminal ==
    [][\A o \in orders : o.status = "cancelled" =>
            \A p \in orders' : p.id = o.id => p.status = "cancelled"]_vars

\* C20: Orders persist.  No step -- cart add, update or remove,
\* confirm-order, order status update, stock edit, creating or deleting a
\* saved contact -- removes a stored Order.
C20_OrdersPersist ==
    [][\A o \in orders : \E p \in orders' : p.id = o.id]_vars

\* C23: No lost decrement.  As long as no manager edit has written a stock
\* line, its stored quantity is its initial quantity minus the sum of the
\* quantities of all Orders created against it, however the confirm-order
\* requests interleave.
C23_NoLostDecrement ==
    \A s \in Stocks :
        s \notin edited => stock[s].quantity = initial[s] - SumQuantity(OrdersOf(s))

\* C27: Order status domain.  The status of every stored Order is one of
\* created, confirmed, assembled, sent, delivered, cancelled; an Order is
\* inserted with status created; a status update carrying any other value
\* changes no Order and, sent by a manager of the Order's shop or by an
\* administrator for an existing Order, is answered 400.
C27_StatusDomain ==
    /\ [](\A o \in orders : o.status \in STATUS_CHOICES)
    /\ [][/\ \A p \in orders' :
               (\A o \in orders : o.id # p.id) => p.status = "created"
          /\ (/\ Answers("order_update")
              /\ "status" \in DOMAIN resp'.data
              /\ resp'.data.status \notin STATUS_CHOICES)
             => /\ orders' = orders
                /\ (/\ resp'.user \in Staff \cup ShopManagers[resp'.shop]
                    /\ \E o \in orders : o.id = resp'.id /\ ShopOf(o.product) = resp'.shop)
                   => resp'.status = 400]_vars

\* C27 witness: the manager's update of an existing Order to a status that
\* is not a choice has been answered 400, after an earlier update went
\* through.
C27_Witness ==
    /\ resp.op = "order_update"
    /\ resp.user \in ShopManagers[resp.shop]
    /\ DOMAIN resp.data = {"status"}
    /\ resp.data.status = "invalid_status"
    /\ resp.status = 400
    /\ \E o \in orders :
          o.id = resp.id /\ ShopOf(o.product) = resp.shop /\ o.status = "confirmed"

\* C28: a manager's stock edit whose payload has no quantity leaves the
\* stored quantity of the stock line as it is when the edit is saved, also
\* when a confirm-order request has decremented the line since the edit
\* read it.
C28_EditKeepsQuantity ==
    [][(mgr.pc = "save" /\ mgr'.pc = "idle" /\ "quantity" \notin DOMAIN mgr.data) =>
          stock'[mgr.instance.id].quantity = stock[mgr.instance.id].quantity]_vars

\* C30: the contact limit does not decide confirm-order.  Requests handled
\* one at a time: a confirm-order request of a customer with a non-empty
\* cart and a delivery address with city, street and house is not answered
\* 400, however many contacts the customer has saved.
C30_ContactLimitIrrelevant ==
    [][\A r \in Requests :
        (/\ req[r].pc = "idle" /\ req'[r].pc # "idle"
         /\ \E line \in cart : line.customer = req'[r].customer
         /\ req'[r].data.city # Absent
         /\ req'[r].data.street # Absent
         /\ req'[r].data.house # Absent)
        => ~(req'[r].pc = "done" /\ req'[r].status = 400)]_vars

\* The positions of the tasks about Order id addressed to the set to, in
\* the tasks enqueued by request r.
MailAt(r, id, to) ==
    {n \in 1 .. Len(req[r].mail) : req[r].mail[n].order = id /\ req[r].mail[n].to = to}

\* C21: Order-created notifications.  Every Order a confirm-order request
\* has committed has exactly one notification to its customer and exactly
\* one to the managers of its shop, the customer's first; both are enqueued
\* in the step that commits the line, and a step that commits no Order --
\* a skipped line, a write inside the transaction, a transaction rolled
\* back -- enqueues nothing.
C21_OrderNotifications ==
    /\ [](\A r \in Requests : \A n \in 1 .. Len(req[r].created) :
            LET o == req[r].created[n]
                c == MailAt(r, o.id, {o.customer})
                m == MailAt(r, o.id, ShopManagers[ShopOf(o.product)])
            IN /\ Cardinality(c) = 1
               /\ Cardinality(m) = 1
               /\ \A i \in c, j \in m : i < j
               /\ \A q \in Requests \ {r} : \A k \in 1 .. Len(req[q].mail) :
                      req[q].mail[k].order # o.id)
    /\ [][\A r \in Requests : Acts(r) =>
            IF orders' \ orders # {}
            THEN /\ req[r].pc = "commit"
                 /\ Len(req'[r].mail) = Len(req[r].mail) + 2
            ELSE req'[r].mail = req[r].mail]_vars

\* C21 witness: a request has ended with one Order and one skipped line,
\* and has enqueued two tasks.
C21_Witness ==
    \E r \in Requests :
        /\ req[r].pc = "done"
        /\ Len(req[r].created) = 1
        /\ req[r].skipped # {}
        /\ Len(req[r].mail) = 2

\* C22: Status-change notification.  A status update answered 200 enqueues
\* exactly one task, about that Order and addressed to its customer only;
\* an update answered otherwise enqueues none.
C22_StatusNotification ==
    [][Answers("order_update") =>
          IF resp'.status = 200
          THEN \E o \in orders :
                  /\ o.id = resp'.id
                  /\ Len(resp'.mail) = 1
                  /\ resp'.mail[1].order = o.id
                  /\ resp'.mail[1].to = {o.customer}
          ELSE resp'.mail = <<>>]_vars

\* C22 witness: an administrator's status update has been answered 200 and
\* one task is addressed to the customer.
C22_Witness ==
    /\ resp.op = "order_update"
    /\ resp.user \in Staff
    /\ resp.status = 200
    /\ Len(resp.mail) = 1
    /\ resp.mail[1].to = {"a"}
    /\ \E o \in orders : o.id = resp.id /\ o.status = "cancelled"

\* C26: a failed per-line transaction is a skip.  When the transaction of a
\* cart line ends without an Order, Stock, Cart and Order are as before,
\* the request goes on with the next line, and after the last line it
\* answers 201 if it has created an Order and 409 if not.
C26_FailedLineIsSkip ==
    [][\A r \in Requests :
        (req[r].pc = "commit" /\ Acts(r) /\ orders' = orders) =>
            /\ UNCHANGED db
            /\ IF req[r].i < Len(req[r].cart)
               THEN req'[r].pc = "refresh" /\ req'[r].i = req[r].i + 1
               ELSE /\ req'[r].pc = "done"
                    /\ req'[r].status = IF req[r].created = <<>> THEN 409 ELSE 201]_vars

\* C29: the body of a 200 response of a status update shows the quantity
\* and the total_price stored for the Order.
C29_ResponseShowsStored ==
    [][(Answers("order_update") /\ resp'.status = 200) =>
          \A o \in orders' :
              o.id = resp'.id =>
                  /\ resp'.body.quantity = o.quantity
                  /\ resp'.body.total_price = o.total_price]_vars

\* The sum of the quantities of the Orders of stock line s among created.
CreatedOn(created, s) ==
    SumQuantity({created[n] : n \in {m \in 1 .. Len(created) : created[m].product = s}})

\* A re-validation step of request r decides on the stock row as stored at
\* that moment: the line goes on to its transaction with the stored
\* quantity if the row is for sale and covers the line, and is skipped
\* otherwise.
FreshRead(r) ==
    LET product == req[r].cart[req[r].i]
        row == stock[product.product.id]
    IN IF row.can_buy /\ row.quantity >= product.quantity
       THEN /\ req'[r].pc = "save"
            /\ req'[r].stock.quantity = row.quantity
            /\ req'[r].stock.can_buy = row.can_buy
       ELSE /\ product.id \in req'[r].skipped
            /\ req'[r].pc \in {"refresh", "done"}

\* C24 as stated: fresh read per line.  Every line is re-validated against
\* the stock row as stored at that moment, and the quantities a call has
\* ordered from one stock line sum to at most the quantity the line had
\* when the cart was loaded.
C24_FreshRead ==
    [][\A r \in Requests :
        /\ (req[r].pc = "refresh" /\ Acts(r)) => FreshRead(r)
        /\ (req[r].pc = "commit" /\ Acts(r) /\ orders' # orders) =>
              LET loaded == req[r].cart[req[r].i].product
              IN CreatedOn(req'[r].created, loaded.id) <= loaded.quantity]_vars

\* C24 amended: the bound on the sum holds when no other request has
\* written the stock line since the cart was loaded.
C24_FreshReadUndisturbed ==
    [][\A r \in Requests :
        /\ (req[r].pc = "refresh" /\ Acts(r)) => FreshRead(r)
        /\ (/\ req[r].pc = "commit" /\ Acts(r) /\ orders' # orders
            /\ req[r].cart[req[r].i].product.id \notin req[r].written) =>
              LET loaded == req[r].cart[req[r].i].product
              IN CreatedOn(req'[r].created, loaded.id) <= loaded.quantity]_vars

\* C24 witness: a request is about to re-validate its second line; the
\* stock row loaded with the line covers it, the stored row, decremented by
\* the first line of the same call and written by no one else, does not.
C24_Witness ==
    \E r \in Requests :
        /\ req[r].pc = "refresh" /\ req[r].i = 2
        /\ Len(req[r].created) = 1
        /\ req[r].written = {}
        /\ LET product == req[r].cart[2]
           IN /\ req[r].created[1].product = product.product.id
              /\ product.product.can_buy
              /\ product.product.quantity >= product.quantity
              /\ stock[product.product.id].quantity < product.quantity

\* Lines n < m of the cart loaded by request r are its two lines on one
\* stock line, which as loaded is for sale and covers each of them but not
\* both.
Compete(r, n, m) ==
    LET a == req[r].cart[n]
        b == req[r].cart[m]
    IN /\ n < m
       /\ a.product.id = b.product.id
       /\ \A k \in 1 .. Len(req[r].cart) :
              req[r].cart[k].product.id = a.product.id => k \in {n, m}
       /\ a.product.can_buy
       /\ a.quantity <= a.product.quantity
       /\ b.quantity <= a.product.quantity
       /\ a.quantity + b.quantity > a.product.quantity

\* C25: Deterministic processing order.  Requests handled one at a time:
\* the loaded cart is in ascending id and its lines are processed in that
\* order, one after the other; when two lines, the only ones of the cart
\* on their stock line, compete for a stock line that covers each but not
\* both, the request ends with an Order of the line created first and with
\* the later line skipped.
C25_ProcessingOrder ==
    /\ [](\A r \in Requests : \A n, m \in 1 .. Len(req[r].cart) :
            n < m => req[r].cart[n].id < req[r].cart[m].id)
    /\ [][\A r \in Requests :
            /\ (Acts(r) /\ req[r].pc # "idle" /\ req'[r].pc # "done") =>
                  req'[r].i \in {req[r].i, req[r].i + 1}
            /\ Completes(r) =>
                  \A n, m \in 1 .. Len(req[r].cart) :
                      Compete(r, n, m) =>
                          /\ \E o \in origin' : o.line = req[r].cart[n].id
                          /\ req[r].cart[m].id \in req'[r].skipped
                          /\ \A o \in origin' : o.line # req[r].cart[m].id]_vars

\* C25 witness: a request over two lines of one stock line has ended with
\* an Order of the line with the lower id, and the line with the higher id
\* is skipped and still in the cart.
C25_Witness ==
    \E r \in Requests :
        /\ req[r].pc = "done" /\ req[r].n = 2 /\ Len(req[r].created) = 1
        /\ \E o \in origin, line \in cart :
              /\ o.order = req[r].created[1].id
              /\ line.id \in req[r].skipped
              /\ line.product = req[r].created[1].product
              /\ o.line < line.id

====
